---- MODULE Spec2Model ----
(***************************************************************************)
(* Model of the population-sampling engine of pyABC:                       *)
(*   - Sample (pyabc/sampler/base.py),                                     *)
(*   - the remote batched backend EPSMixin (pyabc/sampler/eps_mixin.py),   *)
(*   - the multicore backend (pyabc/sampler/multicore.py).                 *)
(* Three specifications share one set of variables: SpecEPS, SpecMC and    *)
(* SpecSample; each leaves the variables of the other two untouched.       *)
(***************************************************************************)
EXTENDS Integers, Sequences, FiniteSets, TLC

\* ------------------------------------------------------------------ bounds
MaxN == 2          \* largest sampler_options.n explored
MaxBatch == 2      \* largest batchsize explored
MaxJobs == 3       \* largest client_max_jobs explored
MaxCores == 3      \* largest value client_cores() returns
MaxLoad == 5       \* largest n + client_max_jobs * batchsize explored
MaxLiveLoad == 4   \* the same, under fairness
MaxRej == 2        \* at most this many evaluations per round are not accepted
MaxErr == 1        \* at most this many of them raise
MaxProcs == 2      \* largest configured worker count (self.n_procs) explored
MaxEvals == 2      \* a worker needs at most this many evaluations per token
MaxLen == 2        \* at most this many append calls per Sample (SpecSample)
MaxStat == 2       \* summary statistics are drawn from 1..MaxStat (SpecSample)

VARIABLES
  \* Sampler instance / return value (shared by both backends)
  nr_evaluations_,          \* Sampler.nr_evaluations_
  sample,                   \* the Sample handed back by sample_until_n_accepted
  \* remote batched backend
  pc,                       \* position inside EPSMixin.sample_until_n_accepted
  opt_n,                    \* sampler_options.n
  batchsize,                \* self.batchsize
  client_max_jobs,          \* self.client_max_jobs
  sample_options,           \* sampler_options.sample_options (record flag)
  running_jobs,             \* list of batch handles
  unprocessed_results,      \* SortedListWithKey of <<job id, accept, result>>
  all_results,              \* SortedListWithKey of <<job id, result>>
  num_accepted_total,
  num_accepted_sequential,
  next_job_id,
  next_valid_index,
  outcome,                  \* outcome[id + 1]: what simul_eval_one does on job id
  cancelled,                \* first job ids of the batches cancel() was called on
  out_of_order,             \* history: a batch was drained before an older one
  last_submit,              \* history: the round at its latest submission
  \* multicore backend
  main_pc,                  \* position of the coordinator
  n_procs_cfg,              \* self.n_procs
  feed_q,                   \* input channel
  result_q,                 \* output channel
  feed_i,                   \* number of puts the feeder has done, -1: not started
  workers,                  \* worker processes: [pc, evals, res]
  collected_results,
  eval_log,                 \* history: evaluations done, tokens dequeued, puts
  \* Sample objects under test
  sa, sb,                   \* two Samples filled by append
  sab, sba,                 \* sa + sb and sb + sa
  s_hist                    \* history of the calls made on sa and sb

varsShared == <<nr_evaluations_, sample>>
varsEPS == <<pc, opt_n, batchsize, client_max_jobs, sample_options,
             running_jobs, unprocessed_results, all_results,
             num_accepted_total, num_accepted_sequential, next_job_id,
             next_valid_index, outcome, cancelled, out_of_order, last_submit>>
varsMC == <<main_pc, n_procs_cfg, feed_q, result_q, feed_i, workers,
            collected_results, eval_log>>
varsS == <<sa, sb, sab, sba, s_hist>>
vars == <<varsShared, varsEPS, varsMC, varsS>>

\* ------------------------------------------------------------ base.py: Sample
Particle(acc, ss) == [accepted |-> acc, sum_stats |-> ss]

Sample(record) == [particles |-> <<>>, record_all_sum_stats |-> record]

all_sum_stats(s) == [i \in 1..Len(s.particles) |-> s.particles[i].sum_stats]

IsAccepted(p) == p.accepted

accepted_particles(s) == SelectSeq(s.particles, IsAccepted)

n_accepted(s) == Len(accepted_particles(s))

\* variant of append: keeps a particle only when recording is enabled
append_record_only(s, particle) ==
  IF s.record_all_sum_stats
  THEN [s EXCEPT !.particles = Append(@, particle)]
  ELSE s

\* variant of append: keeps every particle
append_always(s, particle) == [s EXCEPT !.particles = Append(@, particle)]

\* Sample.append
append(s, particle) ==
  IF particle.accepted \/ s.record_all_sum_stats
  THEN [s EXCEPT !.particles = Append(@, particle)]
  ELSE s

\* variant of Sample_add: extends self in place and hands self back
Sample_add_inplace(self, other) ==
  LET smp == [self EXCEPT !.particles = self.particles \o other.particles]
  IN [result |-> smp, self |-> smp, other |-> other]

\* Sample.__add__: the new Sample, and self and other as the call leaves them
Sample_add(self, other) ==
  LET smp == [Sample(self.record_all_sum_stats) EXCEPT
                !.particles = self.particles \o other.particles]
  IN [result |-> smp, self |-> self, other |-> other]

\* --------------------------------------------------- eps_mixin.py: helpers
Outcomes == {"acc", "rej", "err"}

Cores == 1..MaxCores

Count(seq, v) == Cardinality({i \in 1..Len(seq) : seq[i] = v})

Min(a, b) == IF a < b THEN a ELSE b

Max(a, b) == IF a > b THEN a ELSE b

\* SortedListWithKey.add with key = first component
SortedAdd(s, x) ==
  LET k == Cardinality({i \in 1..Len(s) : s[i][1] <= x[1]})
  IN SubSeq(s, 1, k) \o <<x>> \o SubSeq(s, k + 1, Len(s))

\* list.remove of the element at (1-based) position i
RemoveAt(s, i) == SubSeq(s, 1, i - 1) \o SubSeq(s, i + 1, Len(s))

\* job ids carried by a batch handle
BatchIds(job) == job.first .. (job.first + batchsize - 1)

\* full_submit_function raises iff simul_eval_one raises on one of its jobs
Raises(job) == \E id \in BatchIds(job) : outcome[id + 1] = "err"

\* full_submit_function: list of (eval_result, eval_accept, job_id)
full_submit_function(job) ==
  [j \in 1..batchsize |->
     LET id == job.first + j - 1
         acc == outcome[id + 1] = "acc"
     IN <<Particle(acc, id), acc, id>>]

\* The recursive operators below bind their argument once to its value
\* (st \in {arg}); the loop they model is in Body.

\* variant of AddBatch: every result counts towards num_accepted_total
RECURSIVE AddBatchCountAll(_, _, _)
AddBatchCountAll(arg, remote_batch, i) ==
  LET Body(st) ==
        IF i > batchsize THEN st
        ELSE LET remote_evaluated == remote_batch[i]
                 remote_result == remote_evaluated[1]
                 remote_accept == remote_evaluated[2]
                 remote_jobid == remote_evaluated[3]
             IN AddBatchCountAll([st EXCEPT
                            !.unprocessed = SortedAdd(@, <<remote_jobid,
                                                           remote_accept,
                                                           remote_result>>),
                            !.total = @ + 1],
                         remote_batch, i + 1)
  IN CHOOSE r \in {Body(st) : st \in {arg}} : TRUE

\* lines 51-60: add the results of one batch to unprocessed_results
RECURSIVE AddBatch(_, _, _)
AddBatch(arg, remote_batch, i) ==
  LET Body(st) ==
        IF i > batchsize THEN st
        ELSE LET remote_evaluated == remote_batch[i]
                 remote_result == remote_evaluated[1]
                 remote_accept == remote_evaluated[2]
                 remote_jobid == remote_evaluated[3]
             IN AddBatch([st EXCEPT
                            !.unprocessed = SortedAdd(@, <<remote_jobid,
                                                           remote_accept,
                                                           remote_result>>),
                            !.total = IF remote_accept THEN @ + 1 ELSE @],
                         remote_batch, i + 1)
  IN CHOOSE r \in {Body(st) : st \in {arg}} : TRUE

\* variant of GatherScan: a raising batch is dropped and the scan goes on
RECURSIVE GatherScanSwallow(_, _)
GatherScanSwallow(arg, i) ==
  LET Body(st) ==
        IF i > Len(st.running) THEN st
        ELSE LET curJob == st.running[i] IN
             IF ~curJob.done THEN GatherScanSwallow(st, i + 1)
             ELSE IF Raises(curJob)
                  THEN GatherScanSwallow(
                         [st EXCEPT !.running = RemoveAt(@, i)], i + 1)
             ELSE GatherScanSwallow(
                    AddBatch([st EXCEPT !.running = RemoveAt(@, i)],
                             full_submit_function(curJob), 1),
                    i + 1)
  IN CHOOSE r \in {Body(st) : st \in {arg}} : TRUE

\* lines 47-60: "for curJob in running_jobs" with removal inside the loop;
\* i is the (1-based) position of the list iterator.
RECURSIVE GatherScan(_, _)
GatherScan(arg, i) ==
  LET Body(st) ==
        IF i > Len(st.running) THEN st
        ELSE LET curJob == st.running[i] IN
             IF ~curJob.done THEN GatherScan(st, i + 1)
             ELSE IF Raises(curJob) THEN [st EXCEPT !.raised = TRUE]
             ELSE GatherScan(
                    AddBatch([st EXCEPT !.running = RemoveAt(@, i)],
                             full_submit_function(curJob), 1),
                    i + 1)
  IN CHOOSE r \in {Body(st) : st \in {arg}} : TRUE

\* variant of ConsumeLoop: consumes buffered results without the gap test
RECURSIVE ConsumeLoopAny(_)
ConsumeLoopAny(arg) ==
  LET Body(st) ==
        IF Len(st.unprocessed) > 0
        THEN LET seq_evaluated == Head(st.unprocessed)
             IN ConsumeLoopAny(
                  [unprocessed |-> Tail(st.unprocessed),
                   all |-> SortedAdd(st.all, <<seq_evaluated[1],
                                               seq_evaluated[3]>>),
                   seqacc |-> IF seq_evaluated[2] THEN st.seqacc + 1
                              ELSE st.seqacc,
                   nvi |-> st.nvi + 1])
        ELSE st
  IN CHOOSE r \in {Body(st) : st \in {arg}} : TRUE

\* variant of ConsumeLoop: "if" in place of "while", one result per pass
ConsumeLoopOnce(arg) ==
  LET Body(st) ==
        IF Len(st.unprocessed) > 0 /\ st.unprocessed[1][1] = st.nvi + 1
        THEN LET seq_evaluated == Head(st.unprocessed)
             IN [unprocessed |-> Tail(st.unprocessed),
                 all |-> SortedAdd(st.all, <<seq_evaluated[1],
                                             seq_evaluated[3]>>),
                 seqacc |-> IF seq_evaluated[2] THEN st.seqacc + 1
                            ELSE st.seqacc,
                 nvi |-> st.nvi + 1]
        ELSE st
  IN CHOOSE r \in {Body(st) : st \in {arg}} : TRUE

\* lines 62-77: sequential consumption
RECURSIVE ConsumeLoop(_)
ConsumeLoop(arg) ==
  LET Body(st) ==
        IF Len(st.unprocessed) > 0 /\ st.unprocessed[1][1] = st.nvi + 1
        THEN LET seq_evaluated == Head(st.unprocessed)
             IN ConsumeLoop(
                  [unprocessed |-> Tail(st.unprocessed),
                   all |-> SortedAdd(st.all, <<seq_evaluated[1],
                                               seq_evaluated[3]>>),
                   seqacc |-> IF seq_evaluated[2] THEN st.seqacc + 1
                              ELSE st.seqacc,
                   nvi |-> st.nvi + 1])
        ELSE st
  IN CHOOSE r \in {Body(st) : st \in {arg}} : TRUE

\* variant of AssembleLoop: drains all_results completely
RECURSIVE AssembleLoopAll(_)
AssembleLoopAll(arg) ==
  LET Body(st) ==
        IF Len(st.all) = 0 THEN st
        ELSE LET cur_res == Head(st.all)
                 particle == cur_res[2]
             IN AssembleLoopAll(
                  [all |-> Tail(st.all),
                   sample |-> append(st.sample, particle),
                   counter_accepted |-> IF particle.accepted
                                        THEN st.counter_accepted + 1
                                        ELSE st.counter_accepted,
                   nr |-> cur_res[1],
                   raised |-> FALSE])
  IN CHOOSE r \in {Body(st) : st \in {arg}} : TRUE

\* variant of AssembleLoop: nr_evaluations_ counts the drained results
RECURSIVE AssembleLoopCount(_)
AssembleLoopCount(arg) ==
  LET Body(st) ==
        IF st.counter_accepted >= opt_n THEN st
        ELSE IF Len(st.all) = 0 THEN [st EXCEPT !.raised = TRUE]
        ELSE LET cur_res == Head(st.all)
                 particle == cur_res[2]
             IN AssembleLoopCount(
                  [all |-> Tail(st.all),
                   sample |-> append(st.sample, particle),
                   counter_accepted |-> IF particle.accepted
                                        THEN st.counter_accepted + 1
                                        ELSE st.counter_accepted,
                   nr |-> cur_res[1] + 1,
                   raised |-> FALSE])
  IN CHOOSE r \in {Body(st) : st \in {arg}} : TRUE

\* lines 113-122: final assembly
RECURSIVE AssembleLoop(_)
AssembleLoop(arg) ==
  LET Body(st) ==
        IF st.counter_accepted >= opt_n THEN st
        ELSE IF Len(st.all) = 0 THEN [st EXCEPT !.raised = TRUE]
        ELSE LET cur_res == Head(st.all)
                 particle == cur_res[2]
             IN AssembleLoop(
                  [all |-> Tail(st.all),
                   sample |-> append(st.sample, particle),
                   counter_accepted |-> IF particle.accepted
                                        THEN st.counter_accepted + 1
                                        ELSE st.counter_accepted,
                   nr |-> cur_res[1],
                   raised |-> FALSE])
  IN CHOOSE r \in {Body(st) : st \in {arg}} : TRUE

\* outcomes of the k newly drawn parameters, within the round's bounds:
\* B holds the positions of the evaluations that are not accepted
NewOutcomes(k) ==
  LET rej == Count(outcome, "rej")
      err == Count(outcome, "err")
      Bad == {B \in SUBSET (1..k) : Cardinality(B) + rej + err <= MaxRej}
  IN UNION {{[i \in 1..k |-> IF i \in B THEN f[i] ELSE "acc"] :
               f \in {g \in [B -> {"rej", "err"}] :
                        Cardinality({i \in B : g[i] = "err"}) + err
                          <= MaxErr}} :
            B \in Bad}

\* lines 97-107: the handles of cnt new batches, ids from first on
NewBatches(first, cnt) ==
  [b \in 1..cnt |-> [first |-> first + (b - 1) * batchsize, done |-> FALSE]]

\* history only: some batch left `before` while an older batch stayed in `after`
DrainedBeforeOlder(before, after) ==
  \E i \in 1..Len(before), j \in 1..Len(after) :
    /\ \A k \in 1..Len(after) : after[k].first # before[i].first
    /\ after[j].first < before[i].first

\* --------------------------------------------------- eps_mixin.py: actions
\* the variables of a backend or of the Sample objects while not in use
IdleEPS ==
  /\ pc = "idle"
  /\ batchsize = 1
  /\ client_max_jobs = 1
  /\ running_jobs = <<>>
  /\ unprocessed_results = <<>>
  /\ all_results = <<>>
  /\ num_accepted_total = 0
  /\ num_accepted_sequential = 0
  /\ next_job_id = 0
  /\ next_valid_index = -1
  /\ outcome = <<>>
  /\ cancelled = {}
  /\ out_of_order = FALSE
  /\ last_submit = [inflight |-> 0, not_accepted |-> 0]

IdleMC ==
  /\ main_pc = "idle"
  /\ n_procs_cfg = 1
  /\ feed_q = <<>>
  /\ result_q = <<>>
  /\ feed_i = -1
  /\ workers = <<>>
  /\ collected_results = <<>>
  /\ eval_log = [acc |-> 0, rej |-> 0, deq |-> 0, put |-> <<>>]

IdleS ==
  /\ sa = Sample(FALSE)
  /\ sb = Sample(FALSE)
  /\ sab = Sample(FALSE)
  /\ sba = Sample(FALSE)
  /\ s_hist = [a |-> <<>>, b |-> <<>>, ab |-> FALSE, ba |-> FALSE,
               pre_a |-> Sample(FALSE), pre_b |-> Sample(FALSE),
               last |-> "none"]

InitEPS ==
  /\ IdleMC
  /\ IdleS
  /\ nr_evaluations_ = 0
  /\ sample = Sample(FALSE)
  /\ pc = "gather"
  /\ opt_n \in 1..MaxN
  /\ batchsize \in 1..MaxBatch
  /\ client_max_jobs \in 1..MaxJobs
  /\ opt_n + client_max_jobs * batchsize <= MaxLoad
  /\ sample_options \in BOOLEAN
  /\ running_jobs = <<>>
  /\ unprocessed_results = <<>>
  /\ all_results = <<>>
  /\ num_accepted_total = 0
  /\ num_accepted_sequential = 0
  /\ next_job_id = 0
  /\ next_valid_index = -1
  /\ outcome = <<>>
  /\ cancelled = {}
  /\ out_of_order = FALSE
  /\ last_submit = [inflight |-> 0, not_accepted |-> 0]

\* a submitted batch finishes remotely (its handle's done() turns true)
BatchFinish ==
  /\ pc \in {"gather", "consume", "submit"}
  /\ \E i \in 1..Len(running_jobs) :
       /\ ~running_jobs[i].done
       /\ running_jobs' = [running_jobs EXCEPT ![i].done = TRUE]
  /\ UNCHANGED <<varsMC, varsS, varsShared, pc, opt_n, batchsize, client_max_jobs,
                 sample_options, unprocessed_results, all_results,
                 num_accepted_total, num_accepted_sequential, next_job_id,
                 next_valid_index, outcome, cancelled, out_of_order,
                 last_submit>>

\* lines 47-60
Gather ==
  /\ pc = "gather"
  /\ LET st == GatherScan([running |-> running_jobs,
                           unprocessed |-> unprocessed_results,
                           total |-> num_accepted_total,
                           raised |-> FALSE], 1)
     IN /\ running_jobs' = st.running
        /\ unprocessed_results' = st.unprocessed
        /\ num_accepted_total' = st.total
        /\ pc' = IF st.raised THEN "raised" ELSE "consume"
        /\ out_of_order' = (out_of_order \/ DrainedBeforeOlder(running_jobs,
                                                               st.running))
  /\ UNCHANGED <<varsMC, varsS, varsShared, opt_n, batchsize, client_max_jobs,
                 sample_options, all_results, num_accepted_sequential,
                 next_job_id, next_valid_index, outcome, cancelled,
                 last_submit>>

\* variant of Consume: the loop is left only when more than n are accepted
ConsumeStrict ==
  /\ pc = "consume"
  /\ LET st == ConsumeLoop([unprocessed |-> unprocessed_results,
                            all |-> all_results,
                            seqacc |-> num_accepted_sequential,
                            nvi |-> next_valid_index])
     IN /\ unprocessed_results' = st.unprocessed
        /\ all_results' = st.all
        /\ num_accepted_sequential' = st.seqacc
        /\ next_valid_index' = st.nvi
        /\ pc' = IF st.seqacc > opt_n THEN "finish" ELSE "submit"
  /\ UNCHANGED <<varsMC, varsS, varsShared, opt_n, batchsize, client_max_jobs,
                 sample_options, running_jobs, num_accepted_total,
                 next_job_id, outcome, cancelled, out_of_order, last_submit>>

\* lines 62-82
Consume ==
  /\ pc = "consume"
  /\ LET st == ConsumeLoop([unprocessed |-> unprocessed_results,
                            all |-> all_results,
                            seqacc |-> num_accepted_sequential,
                            nvi |-> next_valid_index])
     IN /\ unprocessed_results' = st.unprocessed
        /\ all_results' = st.all
        /\ num_accepted_sequential' = st.seqacc
        /\ next_valid_index' = st.nvi
        /\ pc' = IF st.seqacc >= opt_n THEN "finish" ELSE "submit"
  /\ UNCHANGED <<varsMC, varsS, varsShared, opt_n, batchsize, client_max_jobs,
                 sample_options, running_jobs, num_accepted_total,
                 next_job_id, outcome, cancelled, out_of_order, last_submit>>

\* history only: evaluations in flight once cnt batches are added, and the
\* evaluations drained so far that were not accepted
SubmitRecord(cnt) ==
  [inflight |-> (Len(running_jobs) + cnt) * batchsize,
   not_accepted |-> next_job_id - Len(running_jobs) * batchsize
                      - num_accepted_total]

\* variant of Submit: the batches in flight are not subtracted
SubmitNoSubtract ==
  /\ pc = "submit"
  /\ \E cores1 \in Cores, cores2 \in Cores :
       IF /\ Len(running_jobs) < client_max_jobs
          /\ Len(running_jobs) < cores1
          /\ num_accepted_total < opt_n
       THEN LET cnt == Max(0, Min(client_max_jobs, cores2))
            IN \E outs \in NewOutcomes(cnt * batchsize) :
                 /\ running_jobs' = running_jobs
                                      \o NewBatches(next_job_id, cnt)
                 /\ next_job_id' = next_job_id + cnt * batchsize
                 /\ outcome' = outcome \o outs
                 /\ last_submit' = IF cnt > 0 THEN SubmitRecord(cnt)
                                   ELSE last_submit
       ELSE UNCHANGED <<running_jobs, next_job_id, outcome, last_submit>>
  /\ pc' = "gather"
  /\ UNCHANGED <<varsMC, varsS, varsShared, opt_n, batchsize, client_max_jobs,
                 sample_options, unprocessed_results, all_results,
                 num_accepted_total, num_accepted_sequential,
                 next_valid_index, cancelled, out_of_order>>

\* variant of Submit: admission ignores num_accepted_total
SubmitIgnoreAccepted ==
  /\ pc = "submit"
  /\ \E cores1 \in Cores, cores2 \in Cores :
       IF /\ Len(running_jobs) < client_max_jobs
          /\ Len(running_jobs) < cores1
       THEN LET cnt == Max(0, Min(client_max_jobs, cores2)
                              - Len(running_jobs))
            IN \E outs \in NewOutcomes(cnt * batchsize) :
                 /\ running_jobs' = running_jobs
                                      \o NewBatches(next_job_id, cnt)
                 /\ next_job_id' = next_job_id + cnt * batchsize
                 /\ outcome' = outcome \o outs
                 /\ last_submit' = IF cnt > 0 THEN SubmitRecord(cnt)
                                   ELSE last_submit
       ELSE UNCHANGED <<running_jobs, next_job_id, outcome, last_submit>>
  /\ pc' = "gather"
  /\ UNCHANGED <<varsMC, varsS, varsShared, opt_n, batchsize, client_max_jobs,
                 sample_options, unprocessed_results, all_results,
                 num_accepted_total, num_accepted_sequential,
                 next_valid_index, cancelled, out_of_order>>

\* lines 90-107; client_cores() is read twice
Submit ==
  /\ pc = "submit"
  /\ \E cores1 \in Cores, cores2 \in Cores :
       IF /\ Len(running_jobs) < client_max_jobs
          /\ Len(running_jobs) < cores1
          /\ num_accepted_total < opt_n
       THEN LET cnt == Max(0, Min(client_max_jobs, cores2)
                              - Len(running_jobs))
            IN \E outs \in NewOutcomes(cnt * batchsize) :
                 /\ running_jobs' = running_jobs
                                      \o NewBatches(next_job_id, cnt)
                 /\ next_job_id' = next_job_id + cnt * batchsize
                 /\ outcome' = outcome \o outs
                 /\ last_submit' = IF cnt > 0 THEN SubmitRecord(cnt)
                                   ELSE last_submit
       ELSE UNCHANGED <<running_jobs, next_job_id, outcome, last_submit>>
  /\ pc' = "gather"
  /\ UNCHANGED <<varsMC, varsS, varsShared, opt_n, batchsize, client_max_jobs,
                 sample_options, unprocessed_results, all_results,
                 num_accepted_total, num_accepted_sequential,
                 next_valid_index, cancelled, out_of_order>>

\* variant of Finish: only the batches that have not finished are cancelled
FinishCancelUnfinished ==
  /\ pc = "finish"
  /\ cancelled' = {running_jobs[i].first :
                     i \in {j \in 1..Len(running_jobs) : ~running_jobs[j].done}}
  /\ LET st == AssembleLoop([all |-> all_results,
                             sample |-> Sample(sample_options),
                             counter_accepted |-> 0,
                             nr |-> nr_evaluations_,
                             raised |-> FALSE])
     IN /\ all_results' = st.all
        /\ nr_evaluations_' = st.nr
        /\ sample' = IF st.raised THEN sample ELSE st.sample
        /\ pc' = IF st.raised THEN "raised" ELSE "done"
  /\ UNCHANGED <<varsMC, varsS, opt_n, batchsize, client_max_jobs,
                 sample_options,
                 running_jobs, unprocessed_results, num_accepted_total,
                 num_accepted_sequential, next_job_id, next_valid_index,
                 outcome, out_of_order, last_submit>>

\* lines 109-124
Finish ==
  /\ pc = "finish"
  /\ cancelled' = {running_jobs[i].first : i \in 1..Len(running_jobs)}
  /\ LET st == AssembleLoop([all |-> all_results,
                             sample |-> Sample(sample_options),
                             counter_accepted |-> 0,
                             nr |-> nr_evaluations_,
                             raised |-> FALSE])
     IN /\ all_results' = st.all
        /\ nr_evaluations_' = st.nr
        /\ sample' = IF st.raised THEN sample ELSE st.sample
        /\ pc' = IF st.raised THEN "raised" ELSE "done"
  /\ UNCHANGED <<varsMC, varsS, opt_n, batchsize, client_max_jobs,
                 sample_options,
                 running_jobs, unprocessed_results, num_accepted_total,
                 num_accepted_sequential, next_job_id, next_valid_index,
                 outcome, out_of_order, last_submit>>

NextEPS == BatchFinish \/ Gather \/ Consume \/ Submit \/ Finish

SpecEPS == InitEPS /\ [][NextEPS]_vars

\* the polling loop keeps running and every submitted batch finishes
FairEPS ==
  /\ WF_vars(BatchFinish)
  /\ WF_vars(Gather)
  /\ WF_vars(Consume)
  /\ WF_vars(Submit)
  /\ WF_vars(Finish)

InitEPSLive ==
  InitEPS /\ opt_n + client_max_jobs * batchsize <= MaxLiveLoad

SpecEPSLive == InitEPSLive /\ [][NextEPS]_vars /\ FairEPS

\* ------------------------------------------------ base.py: Sample under test
ParticleSet == {Particle(acc, ss) : acc \in BOOLEAN, ss \in 1..MaxStat}

InitSample ==
  /\ IdleEPS
  /\ IdleMC
  /\ nr_evaluations_ = 0
  /\ sample = Sample(FALSE)
  /\ opt_n = 1
  /\ sample_options = FALSE
  /\ \E record \in BOOLEAN : sa = Sample(record) /\ sb = Sample(record)
  /\ sab = Sample(FALSE)
  /\ sba = Sample(FALSE)
  /\ s_hist = [a |-> <<>>, b |-> <<>>, ab |-> FALSE, ba |-> FALSE,
               pre_a |-> Sample(FALSE), pre_b |-> Sample(FALSE),
               last |-> "none"]

\* sa.append(particle)
AppendA ==
  /\ ~s_hist.ab /\ ~s_hist.ba
  /\ Len(s_hist.a) < MaxLen
  /\ \E particle \in ParticleSet :
       /\ sa' = append(sa, particle)
       /\ s_hist' = [s_hist EXCEPT !.a = Append(@, particle),
                                   !.pre_a = sa, !.last = "a"]
  /\ UNCHANGED <<varsShared, varsEPS, varsMC, sb, sab, sba>>

\* sb.append(particle)
AppendB ==
  /\ ~s_hist.ab /\ ~s_hist.ba
  /\ Len(s_hist.b) < MaxLen
  /\ \E particle \in ParticleSet :
       /\ sb' = append(sb, particle)
       /\ s_hist' = [s_hist EXCEPT !.b = Append(@, particle),
                                   !.pre_b = sb, !.last = "b"]
  /\ UNCHANGED <<varsShared, varsEPS, varsMC, sa, sab, sba>>

\* sab = sa + sb
AddAB ==
  /\ ~s_hist.ab
  /\ LET r == Sample_add(sa, sb)
     IN /\ sab' = r.result
        /\ sa' = r.self
        /\ sb' = r.other
  /\ s_hist' = [s_hist EXCEPT !.ab = TRUE, !.last = "add",
                              !.pre_a = IF s_hist.ba THEN @ ELSE sa,
                              !.pre_b = IF s_hist.ba THEN @ ELSE sb]
  /\ UNCHANGED <<varsShared, varsEPS, varsMC, sba>>

\* sba = sb + sa
AddBA ==
  /\ ~s_hist.ba
  /\ LET r == Sample_add(sb, sa)
     IN /\ sba' = r.result
        /\ sb' = r.self
        /\ sa' = r.other
  /\ s_hist' = [s_hist EXCEPT !.ba = TRUE, !.last = "add",
                              !.pre_a = IF s_hist.ab THEN @ ELSE sa,
                              !.pre_b = IF s_hist.ab THEN @ ELSE sb]
  /\ UNCHANGED <<varsShared, varsEPS, varsMC, sab>>

NextSample == AppendA \/ AppendB \/ AddAB \/ AddBA

SpecSample == InitSample /\ [][NextSample]_vars

\* --------------------------------------------------- multicore.py: helpers
SENTINEL == 0

\* Process.is_alive(): the process has been started and has not ended
is_alive(proc) == proc.pc \in {"get", "eval"}

\* variant of healthy: a worker that has left on its termination token
\* counts as failed too
healthy_all_alive(worker) == \A i \in 1..Len(worker) : is_alive(worker[i])

\* no worker has ended unexpectedly; a worker that has left on its
\* termination token has ended as planned
healthy(worker) == \A i \in 1..Len(worker) : worker[i].pc # "crashed"

\* the outcomes of one blocking receive with its liveness check. A pending
\* result is returned and a failed worker is reported; when both are
\* present either may come first. With nothing pending and no failed worker
\* the receive keeps waiting.
get_if_worker_healthy(worker, queue) ==
  (IF Len(queue) > 0
   THEN {[kind |-> "item", item |-> Head(queue)]} ELSE {})
  \cup (IF ~healthy(worker)
        THEN {[kind |-> "raise", item |-> <<>>]} ELSE {})
  \cup (IF Len(queue) = 0 /\ healthy(worker)
        THEN {[kind |-> "wait", item |-> <<>>]} ELSE {})

\* line 81
n_procs == Min(opt_n, n_procs_cfg)

\* variant of NrReceives: the collecting loop stops one receive early
NrReceivesShort == opt_n - 1

\* line 101: range(sampler_options.n)
NrReceives == opt_n

\* variant of SumEvaluations: counts the results
RECURSIVE CountEvaluations(_)
CountEvaluations(collected) ==
  IF collected = <<>> THEN 0
  ELSE 1 + CountEvaluations(Tail(collected))

\* lines 113-114: sum(evaluations)
RECURSIVE SumEvaluations(_)
SumEvaluations(collected) ==
  IF collected = <<>> THEN 0
  ELSE Head(collected)[2] + SumEvaluations(Tail(collected))

\* lines 117-119: "for result in results: sample += result"
RECURSIVE MergeResults(_, _)
MergeResults(smp, collected) ==
  IF collected = <<>> THEN smp
  ELSE MergeResults(Sample_add(smp, Head(collected)[1]).result,
                    Tail(collected))

\* --------------------------------------------------- multicore.py: actions
InitMC ==
  /\ IdleEPS
  /\ IdleS
  /\ nr_evaluations_ = 0
  /\ sample = Sample(FALSE)
  /\ opt_n \in 1..MaxN
  /\ sample_options \in BOOLEAN
  /\ main_pc = "init"
  /\ n_procs_cfg \in 1..MaxProcs
  /\ feed_q = <<>>
  /\ result_q = <<>>
  /\ feed_i = -1
  /\ workers = <<>>
  /\ collected_results = <<>>
  /\ eval_log = [acc |-> 0, rej |-> 0, deq |-> 0, put |-> <<>>]

\* lines 81-99: create and start the workers and the feeder
Start ==
  /\ main_pc = "init"
  /\ workers' = [w \in 1..n_procs |->
                   [pc |-> "get", evals |-> 0, res |-> Sample(sample_options)]]
  /\ feed_i' = 0
  /\ main_pc' = "collect"
  /\ UNCHANGED <<varsShared, varsEPS, varsS, n_procs_cfg, feed_q, result_q,
                 collected_results, eval_log>>

\* variant of Feed: one termination token per configured worker
FeedCfgProcs ==
  /\ feed_i >= 0
  /\ feed_i < opt_n + n_procs_cfg
  /\ LET token == IF feed_i < opt_n THEN 1 ELSE SENTINEL
     IN /\ feed_q' = Append(feed_q, token)
        /\ eval_log' = [eval_log EXCEPT !.put = Append(@, token)]
  /\ feed_i' = feed_i + 1
  /\ UNCHANGED <<varsShared, varsEPS, varsS, main_pc, n_procs_cfg, result_q,
                 workers, collected_results>>

\* feed, lines 15-20: one put
Feed ==
  /\ feed_i >= 0
  /\ feed_i < opt_n + Len(workers)
  /\ LET token == IF feed_i < opt_n THEN 1 ELSE SENTINEL
     IN /\ feed_q' = Append(feed_q, token)
        /\ eval_log' = [eval_log EXCEPT !.put = Append(@, token)]
  /\ feed_i' = feed_i + 1
  /\ UNCHANGED <<varsShared, varsEPS, varsS, main_pc, n_procs_cfg, result_q,
                 workers, collected_results>>

\* variant of WorkGet: the termination token is not recognised
WorkGetNoBreak(w) ==
  /\ w \in 1..Len(workers)
  /\ workers[w].pc = "get"
  /\ Len(feed_q) > 0
  /\ feed_q' = Tail(feed_q)
  /\ workers' = [workers EXCEPT ![w] = [pc |-> "eval", evals |-> 0,
                                        res |-> Sample(sample_options)]]
  /\ eval_log' = [eval_log EXCEPT !.deq = @ + 1]
  /\ UNCHANGED <<varsShared, varsEPS, varsS, main_pc, n_procs_cfg, result_q,
                 feed_i, collected_results>>

\* work, lines 35-38: dequeue a token, leave on the termination token
WorkGet(w) ==
  /\ w \in 1..Len(workers)
  /\ workers[w].pc = "get"
  /\ Len(feed_q) > 0
  /\ LET arg == Head(feed_q)
     IN /\ feed_q' = Tail(feed_q)
        /\ IF arg = SENTINEL
           THEN /\ workers' = [workers EXCEPT ![w].pc = "exited"]
                /\ UNCHANGED eval_log
           ELSE /\ workers' = [workers EXCEPT
                                 ![w] = [pc |-> "eval", evals |-> 0,
                                         res |-> Sample(sample_options)]]
                /\ eval_log' = [eval_log EXCEPT !.deq = @ + 1]
  /\ UNCHANGED <<varsShared, varsEPS, varsS, main_pc, n_procs_cfg, result_q,
                 feed_i, collected_results>>

\* work, line 40: one draw+evaluate cycle of the single-core sampler that
\* is rejected
WorkEvalRejected(w) ==
  /\ w \in 1..Len(workers)
  /\ workers[w].pc = "eval"
  /\ workers[w].evals + 1 < MaxEvals
  /\ workers' = [workers EXCEPT
                   ![w].evals = @ + 1,
                   ![w].res = append(@, Particle(FALSE, w))]
  /\ eval_log' = [eval_log EXCEPT !.rej = @ + 1]
  /\ UNCHANGED <<varsShared, varsEPS, varsS, main_pc, n_procs_cfg, feed_q,
                 result_q, feed_i, collected_results>>

\* variant of WorkEvalAccepted: the result is not put on the output channel
WorkEvalAcceptedNoPost(w) ==
  /\ w \in 1..Len(workers)
  /\ workers[w].pc = "eval"
  /\ workers' = [workers EXCEPT ![w].pc = "get"]
  /\ eval_log' = [eval_log EXCEPT !.acc = @ + 1]
  /\ UNCHANGED <<varsShared, varsEPS, varsS, main_pc, n_procs_cfg, feed_q,
                 result_q, feed_i, collected_results>>

\* work, lines 40-42: the accepted cycle ends the single-core round; the
\* Sample and the evaluation count are put on the output channel
WorkEvalAccepted(w) ==
  /\ w \in 1..Len(workers)
  /\ workers[w].pc = "eval"
  /\ LET res == append(workers[w].res, Particle(TRUE, w))
         nr == workers[w].evals + 1
     IN result_q' = Append(result_q, <<res, nr>>)
  /\ workers' = [workers EXCEPT ![w].pc = "get"]
  /\ eval_log' = [eval_log EXCEPT !.acc = @ + 1]
  /\ UNCHANGED <<varsShared, varsEPS, varsS, main_pc, n_procs_cfg, feed_q,
                 feed_i, collected_results>>

\* a worker dies while it holds a work token
WorkCrash(w) ==
  /\ w \in 1..Len(workers)
  /\ workers[w].pc = "eval"
  /\ workers' = [workers EXCEPT ![w].pc = "crashed"]
  /\ UNCHANGED <<varsShared, varsEPS, varsS, main_pc, n_procs_cfg, feed_q,
                 result_q, feed_i, collected_results, eval_log>>

\* lines 101-103: one pass of the collecting loop
Collect ==
  /\ main_pc = "collect"
  /\ Len(collected_results) < NrReceives
  /\ \E r \in get_if_worker_healthy(workers, result_q) :
       /\ r.kind # "wait"
       /\ IF r.kind = "item"
          THEN /\ collected_results' = Append(collected_results, r.item)
               /\ result_q' = Tail(result_q)
               /\ main_pc' = IF Len(collected_results) + 1 >= NrReceives
                             THEN "join" ELSE "collect"
          ELSE /\ main_pc' = "fatal"
               /\ UNCHANGED <<collected_results, result_q>>
  /\ UNCHANGED <<varsShared, varsEPS, varsS, n_procs_cfg, feed_q, feed_i,
                 workers, eval_log>>

\* lines 105-121: join feeder and workers, sum the counts, merge the Samples
JoinFinalize ==
  /\ main_pc = "join"
  /\ feed_i = opt_n + Len(workers)
  /\ \A w \in 1..Len(workers) : ~is_alive(workers[w])
  /\ nr_evaluations_' = SumEvaluations(collected_results)
  /\ sample' = MergeResults(Sample(sample_options), collected_results)
  /\ main_pc' = "done"
  /\ UNCHANGED <<varsEPS, varsS, n_procs_cfg, feed_q, result_q, feed_i,
                 workers, collected_results, eval_log>>

Worker(w) ==
  \/ WorkGet(w)
  \/ WorkEvalRejected(w)
  \/ WorkEvalAccepted(w)
  \/ WorkCrash(w)

NextMC ==
  \/ Start
  \/ Feed
  \/ Collect
  \/ JoinFinalize
  \/ \E w \in 1..MaxProcs : Worker(w)

SpecMC == InitMC /\ [][NextMC]_vars

\* every started process keeps running: the feeder, the coordinator, and a
\* worker's dequeue and the completion of its evaluation
FairMC ==
  /\ WF_vars(Start)
  /\ WF_vars(Feed)
  /\ WF_vars(Collect)
  /\ WF_vars(JoinFinalize)
  /\ \A w \in 1..MaxProcs : WF_vars(WorkGet(w)) /\ WF_vars(WorkEvalAccepted(w))

SpecMCLive == SpecMC /\ FairMC

\* ================================================= claims, remote backend
\* job ids in issue order, and those whose evaluation is accepted
IssuedIds == [i \in 1..Len(outcome) |-> i - 1]

OutcomeAccepted(id) == outcome[id + 1] = "acc"

AcceptedIds == SelectSeq(IssuedIds, OutcomeAccepted)

\* job ids of the accepted particles of the returned Sample, in Sample order
ReturnedAcceptedIds ==
  [i \in 1..Len(accepted_particles(sample)) |->
     accepted_particles(sample)[i].sum_stats]

\* C1: whenever the remote backend returns, the Sample holds exactly n
\* accepted particles, also when more than n accepted results were consumed.
C1_ExactlyN == pc = "done" => n_accepted(sample) = opt_n

C1_Witness ==
  /\ pc = "done"
  /\ num_accepted_sequential > opt_n
  /\ n_accepted(sample) = opt_n

\* C2: the accepted particles returned are the n accepted results with the
\* smallest job ids of all issued jobs, in strictly ascending job-id order;
\* the result is a function of the per-job outcomes alone.
C2_SubmissionOrder ==
  pc = "done" =>
    /\ Len(AcceptedIds) >= opt_n
    /\ ReturnedAcceptedIds = SubSeq(AcceptedIds, 1, opt_n)
    /\ \A i, j \in 1..Len(ReturnedAcceptedIds) :
         i < j => ReturnedAcceptedIds[i] < ReturnedAcceptedIds[j]

C2_Witness ==
  /\ pc = "done"
  /\ out_of_order
  /\ opt_n >= 2
  /\ ReturnedAcceptedIds = SubSeq(AcceptedIds, 1, opt_n)

\* C3 (as claimed): on return nr_evaluations_ >= n, with equality exactly
\* when every evaluation of the round is accepted.
C3_EvaluationsAtLeastN ==
  pc = "done" =>
    /\ nr_evaluations_ >= opt_n
    /\ (nr_evaluations_ = opt_n
          <=> \A i \in 1..Len(outcome) : outcome[i] = "acc")

\* C10: a raising batch is never drained; fetching it ends the call in the
\* raised state with no Sample, nr_evaluations_ untouched, and nothing is
\* submitted afterwards; job ids are issued once only.
C10_ExceptionPropagates ==
  /\ [](pc = "raised" => sample = Sample(FALSE) /\ nr_evaluations_ = 0)
  /\ [][(/\ pc = "gather"
         /\ pc' # "gather"
         /\ Len(running_jobs) > 0
         /\ running_jobs[1].done
         /\ Raises(running_jobs[1])) => pc' = "raised"]_vars
  /\ [][\A i \in 1..Len(running_jobs) :
          Raises(running_jobs[i]) =>
            \E j \in 1..Len(running_jobs') :
              running_jobs'[j].first = running_jobs[i].first]_vars
  /\ [][pc = "raised" => UNCHANGED vars]_vars
  /\ [][/\ next_job_id' >= next_job_id
        /\ \A j \in 1..Len(running_jobs') :
             \/ running_jobs'[j].first >= next_job_id
             \/ \E i \in 1..Len(running_jobs) :
                  running_jobs[i].first = running_jobs'[j].first]_vars

C10_Witness ==
  /\ pc = "raised"
  /\ \E i \in 1..Len(running_jobs) :
       running_jobs[i].done /\ Raises(running_jobs[i])
  /\ next_valid_index >= 0

\* ===================================================== claims, multicore
\* work tokens the feeder has not put yet
TokensNotFed == IF feed_i < 0 THEN opt_n ELSE opt_n - Min(feed_i, opt_n)

TokensInFeedQ == Count(feed_q, 1)

TokensInEval ==
  Cardinality({w \in 1..Len(workers) : workers[w].pc = "eval"})

NoCrash == \A w \in 1..Len(workers) : workers[w].pc # "crashed"

SomeCrash == \E w \in 1..Len(workers) : workers[w].pc = "crashed"

\* C4: in a run without a worker failure every work token is, at any time,
\* in exactly one place (not yet fed, queued, being evaluated by one worker,
\* posted, or collected) and every posted result holds exactly one accepted
\* particle; and when every started process keeps running and every
\* evaluation finishes, such a run does return, with all n tokens dequeued,
\* n results received and a Sample of exactly n accepted particles.
C4_TokensConserved ==
  /\ [](NoCrash =>
          /\ TokensNotFed + TokensInFeedQ + TokensInEval
               + Len(result_q) + Len(collected_results) = opt_n
          /\ eval_log.deq
               = TokensInEval + Len(result_q) + Len(collected_results)
          /\ \A i \in 1..Len(result_q) : n_accepted(result_q[i][1]) = 1
          /\ \A i \in 1..Len(collected_results) :
               n_accepted(collected_results[i][1]) = 1
          /\ main_pc = "done" =>
               /\ eval_log.deq = opt_n
               /\ Len(collected_results) = opt_n
               /\ n_accepted(sample) = opt_n)
  /\ <>(SomeCrash \/ (main_pc = "done" /\ n_accepted(sample) = opt_n))

C4_Witness ==
  /\ main_pc = "done"
  /\ opt_n >= 2
  /\ Len(workers) >= 2
  /\ n_accepted(sample) = opt_n
  /\ \E i, j \in 1..Len(sample.particles) :
       sample.particles[i].sum_stats # sample.particles[j].sum_stats

\* C5: on completion nr_evaluations_ is the sum of the evaluation counts of
\* the n received results, which is the number of evaluations the workers
\* did; it is >= n, and equal to n exactly when none was rejected.
C5_EvaluationsSummed ==
  main_pc = "done" =>
    /\ Len(collected_results) = opt_n
    /\ nr_evaluations_ = eval_log.acc + eval_log.rej
    /\ nr_evaluations_ >= opt_n
    /\ (nr_evaluations_ = opt_n <=> eval_log.rej = 0)

C5_Witness ==
  /\ main_pc = "done"
  /\ eval_log.rej > 0
  /\ nr_evaluations_ > opt_n
  /\ Len(workers) >= 2

\* C9: once a worker has died holding a work token the call never returns
\* a Sample, it ends in the fatal error, and no work token beyond the n of
\* the feeder is ever dequeued (the lost job is not run again).
C9_WorkerDeathIsFatal ==
  /\ [](SomeCrash => main_pc # "done")
  /\ (SomeCrash ~> main_pc = "fatal")
  /\ [](eval_log.deq <= opt_n)

C9_Witness ==
  /\ main_pc = "fatal"
  /\ SomeCrash
  /\ Len(collected_results) >= 1

\* =================================================== claims, Sample
AcceptedOf(hist) == SelectSeq(hist, IsAccepted)

StatsOf(hist) == [i \in 1..Len(hist) |-> hist[i].sum_stats]

\* C6: the accepted count of a Sample is the number of appended particles
\* with accepted = true; appending a rejected particle leaves the accepted
\* count alone and changes all_sum_stats only with recording enabled.
C6_AcceptedCount ==
  /\ (~s_hist.ab /\ ~s_hist.ba) =>
       /\ n_accepted(sa) = Len(AcceptedOf(s_hist.a))
       /\ n_accepted(sb) = Len(AcceptedOf(s_hist.b))
  /\ (s_hist.last = "a" /\ ~s_hist.a[Len(s_hist.a)].accepted) =>
       /\ n_accepted(sa) = n_accepted(s_hist.pre_a)
       /\ (all_sum_stats(sa) # all_sum_stats(s_hist.pre_a)
             => sa.record_all_sum_stats)
  /\ (s_hist.last = "b" /\ ~s_hist.b[Len(s_hist.b)].accepted) =>
       /\ n_accepted(sb) = n_accepted(s_hist.pre_b)
       /\ (all_sum_stats(sb) # all_sum_stats(s_hist.pre_b)
             => sb.record_all_sum_stats)

C6_Witness ==
  /\ s_hist.last = "a"
  /\ Len(s_hist.a) = MaxLen
  /\ ~s_hist.a[Len(s_hist.a)].accepted
  /\ s_hist.a[1].accepted
  /\ sa.record_all_sum_stats
  /\ all_sum_stats(sa) # all_sum_stats(s_hist.pre_a)
  /\ n_accepted(sa) = 1

\* C7 (as claimed): with rejected-recording disabled all_sum_stats stays
\* empty after any sequence of appends.
C7_EmptyUnlessRecording ==
  (~s_hist.ab /\ ~s_hist.ba /\ ~sa.record_all_sum_stats)
    => all_sum_stats(sa) = <<>>

\* C7 (amended): all_sum_stats holds the statistics of every appended
\* particle when recording is enabled, and of exactly the accepted ones,
\* in append order, when it is disabled.
C7_StatsOfKeptParticles ==
  (~s_hist.ab /\ ~s_hist.ba) =>
    /\ all_sum_stats(sa) = IF sa.record_all_sum_stats
                           THEN StatsOf(s_hist.a)
                           ELSE StatsOf(AcceptedOf(s_hist.a))
    /\ all_sum_stats(sb) = IF sb.record_all_sum_stats
                           THEN StatsOf(s_hist.b)
                           ELSE StatsOf(AcceptedOf(s_hist.b))

C7_Witness ==
  /\ ~s_hist.ab /\ ~s_hist.ba
  /\ ~sa.record_all_sum_stats
  /\ Len(s_hist.a) = MaxLen
  /\ s_hist.a[1].accepted
  /\ ~s_hist.a[2].accepted
  /\ all_sum_stats(sa) = <<s_hist.a[1].sum_stats>>

\* C8: a + b is a new Sample holding a's particles followed by b's, a and b
\* stay as they were, the accepted counts add up, and a + b and b + a hold
\* the same particles with the same multiplicities.
C8_AddConcatenates ==
  /\ s_hist.ab =>
       /\ sab.particles = s_hist.pre_a.particles \o s_hist.pre_b.particles
       /\ sab.record_all_sum_stats = s_hist.pre_a.record_all_sum_stats
       /\ n_accepted(sab) = n_accepted(s_hist.pre_a)
                              + n_accepted(s_hist.pre_b)
  /\ s_hist.ba =>
       /\ sba.particles = s_hist.pre_b.particles \o s_hist.pre_a.particles
       /\ n_accepted(sba) = n_accepted(s_hist.pre_a)
                              + n_accepted(s_hist.pre_b)
  /\ (s_hist.ab \/ s_hist.ba) => (sa = s_hist.pre_a /\ sb = s_hist.pre_b)
  /\ (s_hist.ab /\ s_hist.ba) =>
       \A p \in ParticleSet :
         Count(sab.particles, p) = Count(sba.particles, p)

C8_Witness ==
  /\ s_hist.ab /\ s_hist.ba
  /\ sa.particles # <<>>
  /\ sb.particles # <<>>
  /\ sab.particles # sba.particles
  /\ n_accepted(sa) >= 1
  /\ n_accepted(sab) = n_accepted(sa) + n_accepted(sb)


\* ============================================ claims, multicore backend (2)
\* what feed puts on the input channel, in order
FeedPlan ==
  [i \in 1..(opt_n + Min(opt_n, n_procs_cfg)) |->
     IF i <= opt_n THEN 1 ELSE SENTINEL]

\* C11: min(n, p) workers are started; the puts on the input channel are n
\* work tokens followed by min(n, p) termination tokens (at any time a
\* prefix of that sequence, the whole of it on return); the coordinator
\* never receives more than n results and has received exactly n when it
\* leaves the collecting loop.
C11_FeedAndReceiveCounts ==
  main_pc # "idle" =>
    /\ main_pc # "init" => Len(workers) = Min(opt_n, n_procs_cfg)
    /\ Len(eval_log.put) <= Len(FeedPlan)
    /\ eval_log.put = SubSeq(FeedPlan, 1, Len(eval_log.put))
    /\ main_pc = "done" => eval_log.put = FeedPlan
    /\ Len(collected_results) <= opt_n
    /\ main_pc \in {"join", "done"} => Len(collected_results) = opt_n

\* a return with fewer tokens than configured workers
C11_Witness ==
  /\ main_pc = "done"
  /\ opt_n < n_procs_cfg
  /\ Len(eval_log.put) = 2 * opt_n

\* ============================================ claims, remote backend (2)
\* C12: on return nr_evaluations_ is the job id of the last result drained
\* by the final assembly; that result is the n-th accepted one in ascending
\* job-id order, and the consumed results left undrained have larger ids.
C12_LastDrainedJobId ==
  pc = "done" =>
    /\ Len(AcceptedIds) >= opt_n
    /\ nr_evaluations_ = AcceptedIds[opt_n]
    /\ LET last == sample.particles[Len(sample.particles)]
       IN last.accepted /\ last.sum_stats = nr_evaluations_
    /\ \A i \in 1..Len(all_results) : all_results[i][1] > nr_evaluations_

\* a return that leaves consumed results undrained, after a rejection
C12_Witness ==
  /\ pc = "done"
  /\ Len(all_results) > 0
  /\ nr_evaluations_ >= opt_n

\* C13: once num_accepted_sequential has reached n the loop has been left
\* (line 81-82) and no step issues a job id or adds a batch any more.
C13_NoSubmitAfterN ==
  /\ [](num_accepted_sequential >= opt_n => pc \in {"finish", "done"})
  /\ [][num_accepted_sequential >= opt_n =>
          /\ next_job_id' = next_job_id
          /\ outcome' = outcome
          /\ running_jobs' = running_jobs]_vars

\* the loop was left with room for another batch
C13_Witness ==
  /\ pc = "done"
  /\ num_accepted_sequential >= opt_n
  /\ Len(running_jobs) < client_max_jobs

\* C14 (as claimed): on return the number of job ids issued is at most n plus
\* the number of evaluations in flight right after the last submission.
C14_SubmittedAtMostNPlusInflight ==
  pc = "done" => next_job_id <= opt_n + last_submit.inflight

\* C14 (amended): the number of job ids issued is at most n, plus the
\* evaluations drained before the last submission that were not accepted,
\* plus the evaluations in flight right after the last submission.
C14_SubmittedBound ==
  pc # "idle" =>
    next_job_id <= opt_n + last_submit.not_accepted + last_submit.inflight

\* a return after rejections pushed the issued ids past n + in-flight
C14_Witness ==
  /\ pc = "done"
  /\ last_submit.not_accepted > 0
  /\ next_job_id > opt_n + last_submit.inflight

\* C15: the batches in flight never exceed client_max_jobs; a step adds
\* batches only in the submission block, with the batches in flight below
\* client_max_jobs and below the worker capacity and num_accepted_total < n;
\* it then tops them up to min(client_max_jobs, capacity), the new batches
\* taking the next batchsize-sized blocks of job ids, in order, from
\* next_job_id on; job ids are issued by no other step.
C15_AdmissionControl ==
  /\ [](Len(running_jobs) <= client_max_jobs)
  /\ [][Len(running_jobs') > Len(running_jobs) =>
          /\ pc = "submit"
          /\ Len(running_jobs) < client_max_jobs
          /\ num_accepted_total < opt_n
          /\ \E c \in Cores :
               /\ Len(running_jobs) < c
               /\ Len(running_jobs') = Min(client_max_jobs, c)
          /\ SubSeq(running_jobs', 1, Len(running_jobs)) = running_jobs
          /\ \A j \in (Len(running_jobs) + 1)..Len(running_jobs') :
               /\ running_jobs'[j].first =
                    next_job_id + (j - Len(running_jobs) - 1) * batchsize
               /\ running_jobs'[j].first >= Len(outcome)
          /\ next_job_id' =
               next_job_id
                 + (Len(running_jobs') - Len(running_jobs)) * batchsize
          /\ Len(outcome') = next_job_id']_vars
  /\ [][next_job_id' # next_job_id =>
          Len(running_jobs') > Len(running_jobs)]_vars

\* a top-up to the ceiling after earlier batches were drained
C15_Witness ==
  /\ pc = "gather"
  /\ client_max_jobs >= 2
  /\ Len(running_jobs) = client_max_jobs
  /\ next_job_id > Len(running_jobs) * batchsize
  /\ \E i \in 1..Len(running_jobs) :
       running_jobs[i].first < next_job_id - client_max_jobs * batchsize

\* accepted evaluations in the batches that leave `before` for `after`
AcceptedDrained(before, after) ==
  Cardinality({id \in 0..(Len(outcome) - 1) :
     /\ outcome[id + 1] = "acc"
     /\ \E i \in 1..Len(before) :
          /\ id \in BatchIds(before[i])
          /\ \A j \in 1..Len(after) : after[j].first # before[i].first})

\* C16 (as claimed): a scan that completes leaves no finished batch in
\* running_jobs: every batch finished at the time of the scan has its
\* results in unprocessed_results; num_accepted_total grows by the number of
\* accepted results of the drained batches.
C16_EveryFinishedDrained ==
  [][(pc = "gather" /\ pc' = "consume") =>
       /\ \A i \in 1..Len(running_jobs) :
            running_jobs[i].done =>
              /\ \A j \in 1..Len(running_jobs') :
                   running_jobs'[j].first # running_jobs[i].first
              /\ \A id \in BatchIds(running_jobs[i]) :
                   \E k \in 1..Len(unprocessed_results') :
                     unprocessed_results'[k][1] = id
       /\ num_accepted_total' =
            num_accepted_total + AcceptedDrained(running_jobs, running_jobs')]_vars

\* job ids held by all_results and by unprocessed_results, in list order
ConsumedIds == [i \in 1..Len(all_results) |-> all_results[i][1]]

UnprocessedIds ==
  [i \in 1..Len(unprocessed_results) |-> unprocessed_results[i][1]]

\* the ids from lo to hi, ascending
IdRange(lo, hi) == [i \in 1..(hi - lo + 1) |-> lo + i - 1]

\* unprocessed_results is sorted, lies beyond next_valid_index and, right
\* after the sequential consumption, does not start with next_valid_index + 1
BufferedBeyondIndex ==
  /\ \A i \in 1..Len(UnprocessedIds) : UnprocessedIds[i] > next_valid_index
  /\ \A i, j \in 1..Len(UnprocessedIds) :
       i < j => UnprocessedIds[i] < UnprocessedIds[j]
  /\ pc \in {"submit", "finish"} =>
       \/ Len(UnprocessedIds) = 0
       \/ UnprocessedIds[1] # next_valid_index + 1

\* C17 (as claimed): in every reachable state all_results holds exactly the
\* job ids 0..next_valid_index, ascending; every buffered id is larger; right
\* after step 2 the smallest buffered id is not next_valid_index + 1.
C17_ConsumedIsPrefixAlways ==
  pc # "idle" =>
    /\ ConsumedIds = IdRange(0, next_valid_index)
    /\ BufferedBeyondIndex

\* C17 (amended): the same up to the final assembly; the final assembly pops
\* the ids up to nr_evaluations_, so on return all_results holds exactly the
\* ids nr_evaluations_ + 1 .. next_valid_index.
C17_ConsumedIsPrefix ==
  /\ pc \in {"gather", "consume", "submit", "finish", "raised"} =>
       /\ ConsumedIds = IdRange(0, next_valid_index)
       /\ BufferedBeyondIndex
  /\ pc = "done" =>
       /\ ConsumedIds = IdRange(nr_evaluations_ + 1, next_valid_index)
       /\ BufferedBeyondIndex

\* results consumed across batches that were drained in reverse order
C17_Witness ==
  /\ pc \in {"submit", "finish"}
  /\ out_of_order
  /\ Len(all_results) >= 3
  /\ ConsumedIds = IdRange(0, next_valid_index)

\* job ids of the batches in running_jobs
RunningIds == UNION {BatchIds(running_jobs[i]) : i \in 1..Len(running_jobs)}

\* job ids of the particles of the returned Sample
SampleIds == {sample.particles[i].sum_stats : i \in 1..Len(sample.particles)}

\* C18: cancel() is called when the loop has been left, then on every batch
\* in running_jobs, finished or not; on return no particle of the Sample
\* comes from such a batch or from unprocessed_results, and nr_evaluations_
\* is a job id below all of theirs.
C18_CancelAndDiscard ==
  /\ pc \in {"gather", "consume", "submit", "finish"} => cancelled = {}
  /\ pc = "done" =>
       /\ cancelled = {running_jobs[i].first : i \in 1..Len(running_jobs)}
       /\ SampleIds \cap RunningIds = {}
       /\ \A i \in 1..Len(unprocessed_results) :
            /\ unprocessed_results[i][1] \notin SampleIds
            /\ unprocessed_results[i][1] > nr_evaluations_
       /\ \A id \in RunningIds : id > nr_evaluations_

\* a return that leaves a buffered result behind and cancels a batch that
\* had finished without being drained
C18_Witness ==
  /\ pc = "done"
  /\ Len(unprocessed_results) > 0
  /\ \E i \in 1..Len(running_jobs) : running_jobs[i].done
  /\ cancelled = {running_jobs[i].first : i \in 1..Len(running_jobs)}

\* ============================================ claims, multicore backend (3)
\* every worker has left on a termination token
AllExited == \A w \in 1..Len(workers) : workers[w].pc = "exited"

\* worker w has been started and is at position p
WorkerAt(w, p) == IF w <= Len(workers) THEN workers[w].pc = p ELSE FALSE

\* C19: a run in which no worker crashes and every evaluation finishes ends
\* with the joins returned: every worker has dequeued a termination token
\* and exited, the input channel is empty, all n results have been
\* received, and each of the n dequeued work tokens was evaluated to an
\* accepted particle whose result was posted. When the workers have all
\* exited no work token is left unfed or in the input channel, and a worker
\* that holds a work token posts its result.
C19_CleanTermination ==
  /\ <>(SomeCrash \/ main_pc = "done")
  /\ [](main_pc = "done" =>
          /\ AllExited
          /\ feed_q = <<>>
          /\ Len(collected_results) = opt_n
          /\ eval_log.deq = opt_n
          /\ eval_log.acc = opt_n)
  /\ []((Len(workers) > 0 /\ AllExited) =>
          /\ TokensNotFed = 0
          /\ TokensInFeedQ = 0
          /\ eval_log.acc = eval_log.deq)
  /\ \A w \in 1..MaxProcs :
       WorkerAt(w, "eval")
         ~> (SomeCrash \/ (WorkerAt(w, "get") /\ Len(result_q) > 0))

\* a returned call of two workers in which an evaluation was rejected
C19_Witness ==
  /\ main_pc = "done"
  /\ NoCrash
  /\ Len(workers) >= 2
  /\ AllExited
  /\ eval_log.rej > 0
  /\ feed_q = <<>>

\* ============================================ claims, remote backend (3)
\* enough accepted results are drained but not yet consumed in order
AwaitingOlderResult ==
  /\ pc \in {"gather", "consume", "submit"}
  /\ num_accepted_total >= opt_n
  /\ num_accepted_sequential < opt_n

\* C20: if the loop keeps running and every submitted batch finishes, with
\* at most MaxRej evaluations not accepted, the call ends (returned, or
\* raised by a failing batch); and whenever submission is held back by
\* num_accepted_total >= n while num_accepted_sequential < n, the job id
\* next_valid_index + 1 is issued and is in a batch in flight, or buffered
\* and about to be consumed.
C20_LoopExits ==
  /\ <>(pc \in {"done", "raised"})
  /\ [](AwaitingOlderResult =>
          /\ next_valid_index + 1 < next_job_id
          /\ \/ next_valid_index + 1 \in RunningIds
             \/ /\ pc = "consume"
                /\ Len(unprocessed_results) > 0
                /\ unprocessed_results[1][1] = next_valid_index + 1)

\* submission is held back although there is room for another batch
C20_Witness ==
  /\ pc = "gather"
  /\ AwaitingOlderResult
  /\ Len(running_jobs) < client_max_jobs
  /\ last_submit.not_accepted > 0
  /\ next_valid_index + 1 \in RunningIds

\* ============================================ claims, multicore backend (4)
\* some worker has left on its termination token
SomeExited == \E w \in 1..Len(workers) : workers[w].pc = "exited"

====
